---- MODULE Spec2Model ----
(***************************************************************************)
(* Dual-versioned software transactional memory with an epoch batcher.     *)
(*                                                                         *)
(* Modelled sources:                                                       *)
(*   src/307640/tm.cpp   lines 434-734 (get_word, clear_writes, tm_create,  *)
(*                       tm_begin, tm_end, tm_read, tm_write, tm_alloc,     *)
(*                       tm_free)                                           *)
(*   src/unnamed/part_004 lines 237-284 (Batcher::enter, Batcher::leave,   *)
(*                       Region::Region, Region::end_epoch)                *)
(*   src/307640/help.hpp lines 95-142 (LockFreeList, Batcher)              *)
(*                                                                         *)
(* Every thread runs transactions one after the other.  A step of the      *)
(* model is one atomic access of the code (an atomic load, store or CAS)   *)
(* or a run of code that touches only data no other thread can touch at    *)
(* that moment.                                                            *)
(***************************************************************************)
EXTENDS Integers, Sequences, FiniteSets, TLC

\* ------------------------------------------------------------------ bounds
MaxVal   == 1
MaxBegin == 3
MaxOps   == 4
\* bytes of the mapping and capacity of the region: the macro MAX_SIZE of
\* tm.cpp:481, 713, scaled down so that the slots of the initial segment and
\* of the first word handed out by tm_alloc lie inside the mapping
MAX_SIZE == 1200

\* ------------------------------------------------------- program constants
\* atomic_uint arithmetic wraps (at 2^32 in the build); the model wraps it at
\* 2^30, its own integers being 32-bit signed
UintMod    == 1073741824
\* tm_read / tm_write read the version byte at word + 2*align + sizeof(atomic_uint) + 1
RvOffRW    == 1
\* end_epoch flips the byte at word + 2*align + sizeof(atomic_uint) + 3
RvOffEpoch == 3

\* two threads, on the region of tm_create(16, 8): two words of Align bytes
Threads == {1, 2}
Words   == {1, 2}
Align   == 8
\* tm_create(size, align): the bytes of the initial segment
InitSize == Cardinality(Words) * Align
\* sizeof(Word): two copies of align bytes, the atomic_uint access (4 bytes) and
\* the bytes after it up to the one at offset RvOffEpoch
SizeofWord == 2 * Align + 4 + RvOffEpoch + 1
\* the words that are followed: 1 and 2 are those of the initial segment, 3 is
\* the word at the address that next_segment holds after tm_create, 4 the word
\* at the address that next_segment holds after a first tm_alloc of Align bytes
Slots   == Words \cup {3, 4}
Vals    == 0..MaxVal
CtlOffs == {RvOffRW, RvOffEpoch}

VARIABLES
    \* ---- Region
    tran_counter,   \* atomic_uint Region::tran_counter
    copies,         \* copies[w][c]: the two payload buffers of word w (c = 0 at the slot start, c = 1 at + align)
    access,         \* access[w]: atomic_uint at word + 2*align
    ctl,            \* ctl[w][o]: the byte at word + 2*align + sizeof(atomic_uint) + o, as a bool
    written,        \* LockFreeList Region::written, oldest first
    \* ---- Batcher
    remaining,      \* atomic_int Batcher::remaining
    wait,           \* bool Batcher::wait
    lock_w,         \* thread holding cv_change exclusively, 0 when none
    \* ---- threads and their transaction
    pc,             \* position of each thread
    t_id,           \* Transaction::t_id
    is_ro,          \* Transaction::is_ro
    writes,         \* Transaction::writes (vector of word slots)
    failed,         \* the argument of the pending Batcher::leave
    opw,            \* the word of a loop iteration of tm_read that is between its loads and its memcpy
    ops,            \* loop iterations of tm_read / tm_write and calls of tm_alloc / tm_free
                    \* run so far (bounded by MaxOps)
    begins,         \* number of tm_begin calls so far (bounded by MaxBegin)
    \* ---- allocator
    next_segment,   \* Region::next_segment, as the number of bytes between start and it
    tot_size,       \* Region::tot_size, in bytes
    \* ---- history (not program state)
    rd,             \* rd[t][w]: value the transaction of t read from w when it did not own w
    rdtag,          \* rdtag[t][w]: tag of the bytes the transaction of t last read from w
    tags,           \* tags[w][c]: By(id) of the transaction that stored copies[w][c], Fresh for
                    \* the initial zeroes, Dead once that transaction has aborted
    pend,           \* pend[w]: the value the owner of w last wrote to it
    creads,         \* creads[w]: <<id, value>> of the reads of w, as a word they did not own, by the
                    \* read-write transactions that called tm_end in the running batch
    hitw,           \* words on which a tm_write of the running batch met a foreign owner
    raced,          \* words on which, in the last ended batch, one writer committed and another met it
    installed,      \* installed[w]: value of the latest committed write to w whose batch has ended
    commits,        \* commits[w]: number of committed writes to w whose batch has ended
    onlyIncs,       \* every write so far stored 1 + the value its transaction had read from that word
    \* ---- observations of single calls (not program state)
    torn,           \* torn[t]: id and acquired words of the transaction of t that its abort has torn
                    \* down, until the aborting tm_read / tm_write returns
    wr,             \* wr[t][w]: value the transaction of t last wrote to w
    ryw,            \* every read of a word by its owner delivered the value the owner last wrote
    idem,           \* "none": no tm_write yet repeated the value its transaction had written to the
                    \* word; "same": each such call returned true and changed nothing; "diff" otherwise
    spur,           \* spur[t]: the tm_write that aborts the transaction of t found access = 0
    segs,           \* the segments handed out by tm_alloc: base, size, id of the allocating
                    \* transaction and what became of it ("live", "ended", "done" once the
                    \* epoch of its batch has run, "aborted")
    frees,          \* the calls of tm_free: base, id of the freeing transaction and what became of it
    noop,           \* noop[t]: the transaction that t is ending performed no operation
    oom,            \* oom[t]: "none", or what the last tm_alloc of t that returned nomem did:
                    \* "kept" when it changed nothing, "changed" otherwise
    late            \* a tm_read has copied a word that another transaction had acquired since the loads

prog  == <<tran_counter, copies, access, ctl, written, remaining, wait, lock_w,
           pc, t_id, is_ro, writes, failed, opw, ops, begins>>
hist  == <<rd, rdtag, tags, pend, creads, hitw, raced, installed, commits, onlyIncs>>
obs   == <<torn, wr, ryw, idem, spur>>
heap  == <<next_segment, tot_size>>
mem   == <<segs, frees, noop, oom, late>>
vars  == <<prog, hist, obs, heap, mem>>

\* ------------------------------------------------------------ word layout
\* the address the callers use for word w, in bytes from Region::start: the
\* words of the initial segment follow each other at start (tm_start), the
\* other two are where tm_alloc puts a segment (tm.cpp:486, 716-717)
Addr(w) ==
    CASE w \in Words -> (w - 1) * Align
      [] w = 3       -> InitSize * SizeofWord
      [] OTHER       -> (InitSize + Align) * SizeofWord

\* tm.cpp:440-443: id = (word - start) / align; the slot is at start + id*sizeof(Word)
get_word(a) == (a \div Align) * SizeofWord

\* tm.cpp:481: mmap(NULL, MAX_SIZE, ...): the slot of the word at address a,
\* sizeof(Word) bytes, lies inside the mapping
mapped(a) == get_word(a) + SizeofWord <= MAX_SIZE

\* tm.cpp:614, 667: bool* read_version = word + 2*align + sizeof(atomic_uint) + 1
read_version(w) == ctl[w][RvOffRW]

\* tm.cpp:615: read_copy = word + (*read_version ? align : 0)
read_copy(rv) == IF rv THEN 1 ELSE 0

\* fault: the write goes to the copy that is read
write_into_read_copy(rv) == IF rv THEN 1 ELSE 0

\* tm.cpp:620, 668: write_copy = word + (*read_version ? 0 : align)
write_copy(rv) == IF rv THEN 0 ELSE 1

ReadCopyVal(w)  == copies[w][read_copy(read_version(w))]
WriteCopyVal(w) == copies[w][write_copy(read_version(w))]

\* history values: nothing read yet, or the value v read
NoVal   == <<>>
Some(v) == <<v>>
NoReads == [w \in Slots |-> NoVal]

\* history tags: the bytes of the fresh region, of transaction id, of an aborted transaction
Fresh   == [id |-> 0, dead |-> FALSE]
By(id)  == [id |-> id, dead |-> FALSE]
Dead    == [id |-> 0, dead |-> TRUE]
NoTags  == [w \in Slots |-> Fresh]

\* observation: no torn-down transaction, and the one of id that had acquired the words ws
NoTorn       == [on |-> FALSE, id |-> 0, ws |-> {}]
Torn(id, ws) == [on |-> TRUE, id |-> id, ws |-> ws]

\* history: the words of the nodes of written, or of a vector of words
Range(ws) == {ws[i] : i \in 1..Len(ws)}

\* --------------------------------------------------------------- Init
\* Region::Region and tm_create: counters at 0, the mmap'ed region reads as zero,
\* Batcher(reg): remaining 0, wait false; tm.cpp:486-487: next_segment and
\* tot_size after the initial segment.
InitAt(TS, counter) ==
    /\ tran_counter = counter
    /\ copies = [w \in Slots |-> [c \in {0, 1} |-> 0]]
    /\ access = [w \in Slots |-> 0]
    /\ ctl = [w \in Slots |-> [o \in CtlOffs |-> FALSE]]
    /\ written = <<>>
    /\ remaining = 0
    /\ wait = FALSE
    /\ lock_w = 0
    /\ pc = [t \in TS |-> "idle"]
    /\ t_id = [t \in TS |-> 0]
    /\ is_ro = [t \in TS |-> FALSE]
    /\ writes = [t \in TS |-> <<>>]
    /\ failed = [t \in TS |-> FALSE]
    /\ opw = [t \in TS |-> 1]
    /\ ops = 0
    /\ begins = 0
    /\ rd = [t \in TS |-> NoReads]
    /\ rdtag = [t \in TS |-> NoTags]
    /\ tags = [w \in Slots |-> [c \in {0, 1} |-> Fresh]]
    /\ pend = [w \in Slots |-> 0]
    /\ creads = [w \in Slots |-> {}]
    /\ hitw = {}
    /\ raced = {}
    /\ installed = [w \in Slots |-> 0]
    /\ commits = [w \in Slots |-> 0]
    /\ onlyIncs = TRUE
    /\ torn = [t \in TS |-> NoTorn]
    /\ wr = [t \in TS |-> NoReads]
    /\ ryw = TRUE
    /\ idem = "none"
    /\ spur = [t \in TS |-> FALSE]
    /\ next_segment = InitSize * SizeofWord
    /\ tot_size = InitSize
    /\ segs = {}
    /\ frees = {}
    /\ noop = [t \in TS |-> FALSE]
    /\ oom = [t \in TS |-> "none"]
    /\ late = FALSE

InitOver(TS) == InitAt(TS, 0)

Init == InitOver(Threads)

\* ------------------------------------------------------------ tm_begin
\* tm.cpp:551-559: uint t_id = ++reg->tran_counter; new Transaction; then
\* batcher->enter(is_ro)
tm_begin(t, ro) ==
    /\ pc[t] = "idle"
    /\ UNCHANGED <<heap, mem>>
    /\ begins < MaxBegin
    /\ tran_counter' = (tran_counter + 1) % UintMod
    /\ t_id' = [t_id EXCEPT ![t] = tran_counter']
    /\ is_ro' = [is_ro EXCEPT ![t] = ro]
    /\ begins' = begins + 1
    /\ pc' = [pc EXCEPT ![t] = "enter"]
    /\ UNCHANGED <<copies, access, ctl, written, remaining, wait, lock_w,
                   writes, failed, opw, ops, hist, obs>>

\* ------------------------------------------------------- Batcher::enter
\* fault: the shared lock is granted whoever holds cv_change
shared_always(holder) == TRUE

\* shared_lock<shared_mutex> lock_cv{cv_change}: granted while no thread holds
\* cv_change exclusively
shared_lockable(holder) == holder = 0

\* fault: a read-only transaction waits for the drain too
must_wait_any(w, ro) == w

\* fault: nobody waits for the batch to drain
never_wait(w, ro) == FALSE

\* part_004:245: this->remaining++
entered(rem) == rem + 1

\* part_004:241: if (wait && !is_ro) cv.wait(lock_cv, [=]{return !wait;})
must_wait(w, ro) == w /\ ~ro

\* part_004:239-247, and the return of tm_begin.  One step: what runs under the
\* shared lock reads wait, which is written under the exclusive lock only, and
\* increments the atomic remaining.  A thread that must wait releases the lock
\* and blocks; once woken it is back at the lock with the predicate to evaluate.
enter(t) ==
    /\ pc[t] = "enter"
    /\ UNCHANGED <<heap, mem>>
    /\ shared_lockable(lock_w)
    /\ IF must_wait(wait, is_ro[t])
       THEN /\ pc' = [pc EXCEPT ![t] = "cv_wait"]
            /\ UNCHANGED remaining
       ELSE /\ remaining' = entered(remaining)
            /\ pc' = [pc EXCEPT ![t] = "live"]
    /\ UNCHANGED <<tran_counter, copies, access, ctl, written, wait, lock_w,
                   t_id, is_ro, writes, failed, opw, ops, begins, hist, obs>>

\* condition_variable_any::wait may return without a notification; the
\* predicate is then evaluated again under the lock
spurious_wakeup(t) ==
    /\ pc[t] = "cv_wait"
    /\ UNCHANGED <<heap, mem>>
    /\ pc' = [pc EXCEPT ![t] = "enter"]
    /\ UNCHANGED <<tran_counter, copies, access, ctl, written, remaining, wait, lock_w,
                   t_id, is_ro, writes, failed, opw, ops, begins, hist, obs>>

\* ------------------------------------------------------------- tm_read
\* fault: a read-only transaction reads as a read-write one does
read_branch_as_rw(ro, acc, id) == IF acc = id THEN "write" ELSE "other"

\* fault: a read that takes every owned word for its own
read_branch_owned(ro, acc, id) ==
    IF ro THEN "read"
    ELSE IF acc # 0 THEN "write"
    ELSE "other"

\* fault: a read that does not look for its own pending write
read_branch_blind(ro, acc, id) == IF ro THEN "read" ELSE "other"

\* tm.cpp:616-626: which copy a loop iteration delivers, from the transaction and
\* the value loaded from access: "read" (the read copy), "write" (the write
\* copy) or "other" (neither branch taken on this load)
read_branch(ro, acc, id) ==
    IF ro THEN "read"
    ELSE IF acc = id THEN "write"
    ELSE "other"

\* tm.cpp:624: the second load of access: access->load() == 0
second_load_free(acc) == acc = 0

\* memcpy(new_target, copy c of word w, align), with its record in the history
deliver(t, w, c, own) ==
    /\ rd' = IF own THEN rd ELSE [rd EXCEPT ![t][w] = Some(copies[w][c])]
    /\ rdtag' = [rdtag EXCEPT ![t][w] = tags[w][c]]
    /\ ryw' = (ryw /\ (own => wr[t][w] = Some(copies[w][c])))
    /\ pc' = [pc EXCEPT ![t] = "live"]

\* tm.cpp:613-626 on a slot outside the mapping: the loads of access and of the
\* version byte and the memcpy read memory that is not the region's.  The
\* access faults and the process is killed, or the bytes that happen to be
\* there decide: any value is delivered, or a read-write transaction takes the
\* abort branch.
wild_read(t, w) ==
    \/ /\ pc' = [u \in DOMAIN pc |-> "fault"]
       /\ UNCHANGED <<rd, rdtag, ryw, opw>>
    \/ /\ \E v \in Vals : rd' = [rd EXCEPT ![t][w] = Some(v)]
       /\ UNCHANGED <<pc, rdtag, ryw, opw>>
    \/ /\ ~is_ro[t]
       /\ pc' = [pc EXCEPT ![t] = "abort"]
       /\ UNCHANGED <<rd, rdtag, ryw, opw>>

\* fault: a tm_read that takes the free word it reads
tm_read_locking(t, w) ==
    /\ pc[t] = "live"
    /\ UNCHANGED <<heap, mem>>
    /\ ops < MaxOps
    /\ ops' = ops + 1
    /\ access' = IF access[w] = 0 THEN [access EXCEPT ![w] = t_id[t]] ELSE access
    /\ LET b == read_branch(is_ro[t], access[w], t_id[t])
       IN  CASE ~mapped(Addr(w)) -> wild_read(t, w)
             [] b = "read"  -> deliver(t, w, read_copy(read_version(w)), FALSE) /\ UNCHANGED opw
             [] b = "write" -> deliver(t, w, write_copy(read_version(w)), TRUE) /\ UNCHANGED opw
             [] OTHER       -> /\ pc' = [pc EXCEPT ![t] = "rd2"]
                               /\ opw' = [opw EXCEPT ![t] = w]
                               /\ UNCHANGED <<rd, rdtag, ryw>>
    /\ UNCHANGED <<tran_counter, copies, ctl, written, remaining, wait, lock_w,
                   t_id, is_ro, writes, failed, begins,
                   tags, pend, creads, hitw, raced, installed, commits, onlyIncs,
                   torn, wr, idem, spur>>

\* tm.cpp:609-623: one loop iteration of tm_read, on word w, up to the first load
\* of access.  A call of n words is n iterations; the call returns true after
\* the last one.
tm_read(t, w) ==
    /\ pc[t] = "live"
    /\ UNCHANGED <<heap, mem>>
    /\ ops < MaxOps
    /\ ops' = ops + 1
    /\ LET b == read_branch(is_ro[t], access[w], t_id[t])
       IN  CASE ~mapped(Addr(w)) -> wild_read(t, w)
             [] b = "read"  -> deliver(t, w, read_copy(read_version(w)), FALSE) /\ UNCHANGED opw
             [] b = "write" -> deliver(t, w, write_copy(read_version(w)), TRUE) /\ UNCHANGED opw
             [] OTHER       -> /\ pc' = [pc EXCEPT ![t] = "rd2"]
                               /\ opw' = [opw EXCEPT ![t] = w]
                               /\ UNCHANGED <<rd, rdtag, ryw>>
    /\ UNCHANGED <<tran_counter, copies, access, ctl, written, remaining, wait, lock_w,
                   t_id, is_ro, writes, failed, begins,
                   tags, pend, creads, hitw, raced, installed, commits, onlyIncs,
                   torn, wr, idem, spur>>

\* tm.cpp:624-627: second load of access; a foreign owner aborts the transaction
rd_second(t) ==
    /\ pc[t] = "rd2"
    /\ UNCHANGED <<heap, mem>>
    /\ pc' = [pc EXCEPT ![t] =
                IF second_load_free(access[opw[t]]) THEN "rd_cp" ELSE "abort"]
    /\ UNCHANGED <<tran_counter, copies, access, ctl, written, remaining, wait, lock_w,
                   t_id, is_ro, writes, failed, opw, ops, begins, hist, obs>>

\* tm.cpp:625: memcpy(new_target, read_copy, align), after the load
rd_copy(t) ==
    /\ pc[t] = "rd_cp"
    /\ late' = (late \/ access[opw[t]] # 0)
    /\ UNCHANGED <<heap, segs, frees, noop, oom>>
    /\ deliver(t, opw[t], read_copy(read_version(opw[t])), FALSE)
    /\ opw' = [opw EXCEPT ![t] = 1]
    /\ UNCHANGED <<tran_counter, copies, access, ctl, written, remaining, wait, lock_w,
                   t_id, is_ro, writes, failed, ops, begins,
                   tags, pend, creads, hitw, raced, installed, commits, onlyIncs,
                   torn, wr, idem, spur>>

\* ------------------------------------------------------------ tm_write
\* fault: a compare-exchange that takes the word whatever it holds
cas_blind(acc, spurious) == TRUE

\* tm.cpp:669-670: uint expected = 0; access->compare_exchange_weak(expected, t_id)
\* succeeds only on the expected value, and may fail spuriously
cas_succeeds(acc, spurious) == acc = 0 /\ ~spurious

\* fault: a tm_write that takes every owned word for its own
owns_any(acc, id) == acc # 0

\* fault: a tm_write that does not recognise its own word
owns_never(acc, id) == FALSE

\* tm.cpp:674: else if (expected == tran->t_id), expected holding the value found
owns_already(acc, id) == acc = id

\* memcpy(write_copy, new_source, align), with its record in the history
store(t, w, c, v) ==
    /\ copies' = [copies EXCEPT ![w][c] = v]
    /\ tags' = [tags EXCEPT ![w][c] = By(t_id[t])]
    /\ pend' = [pend EXCEPT ![w] = v]
    /\ onlyIncs' = (onlyIncs /\ writes[t] = <<>> /\ rd[t][w] = Some(v - 1))
    /\ wr' = [wr EXCEPT ![t][w] = Some(v)]

\* tm.cpp:662-692: one loop iteration of tm_write, storing v into word w (a
\* read-only transaction does not write: the caller's contract).  The memcpy
\* is in the step of the CAS: only the owner touches the write copy.
tm_write(t, w, v, spurious) ==
    /\ pc[t] = "live"
    /\ UNCHANGED <<heap, mem>>
    /\ ~is_ro[t]
    /\ ops < MaxOps
    /\ ops' = ops + 1
    /\ LET c == write_copy(read_version(w))
       IN  IF cas_succeeds(access[w], spurious)
           THEN /\ access' = [access EXCEPT ![w] = t_id[t]]
                /\ store(t, w, c, v)
                /\ writes' = [writes EXCEPT ![t] = Append(writes[t], w)]
                /\ UNCHANGED <<pc, hitw, spur>>
           ELSE IF owns_already(access[w], t_id[t])
           THEN /\ store(t, w, c, v)
                /\ UNCHANGED <<access, writes, pc, hitw, spur>>
           ELSE /\ pc' = [pc EXCEPT ![t] = "abort"]
                /\ hitw' = IF access[w] # 0 THEN hitw \cup {w} ELSE hitw
                /\ spur' = [spur EXCEPT ![t] = (access[w] = 0)]
                /\ UNCHANGED <<access, copies, tags, pend, onlyIncs, writes, wr>>
    /\ UNCHANGED <<tran_counter, ctl, written, remaining, wait, lock_w,
                   t_id, is_ro, failed, opw, begins,
                   rd, rdtag, creads, raced, installed, commits, torn, ryw>>
    /\ idem' = IF wr[t][w] # Some(v) THEN idem
               ELSE IF idem # "diff" /\ pc' = pc /\ copies' = copies /\ access' = access
                       /\ writes' = writes /\ ctl' = ctl /\ written' = written
                       /\ remaining' = remaining /\ wait' = wait /\ lock_w' = lock_w
                    THEN "same"
                    ELSE "diff"

\* --------------------------------------------------------------- abort
\* history: the segments and frees of transaction id get the status st
Settled(rs, id, st) ==
    {IF r.by = id /\ r.st = "live" THEN [r EXCEPT !.st = st] ELSE r : r \in rs}

\* history: the epoch of the batch has run for the ended ones
Settled_all(rs) ==
    {IF r.st = "ended" THEN [r EXCEPT !.st = "done"] ELSE r : r \in rs}

\* observation: the transaction of t has read, written, allocated and freed nothing
Empty(t) ==
    /\ rd[t] = NoReads /\ wr[t] = NoReads /\ writes[t] = <<>>
    /\ rdtag[t] = NoTags
    /\ oom[t] = "none"
    /\ \A r \in segs \cup frees : ~(r.by = t_id[t] /\ r.st = "live")

\* fault: an abort that releases nothing
clear_nothing(acc, ws) == acc

RECURSIVE clear_writes(_, _)
\* tm.cpp:445-451: access->store(0) for every word of the vector
clear_writes(acc, ws) ==
    IF ws = <<>> THEN acc
    ELSE clear_writes([acc EXCEPT ![Head(ws)] = 0], Tail(ws))

\* history: the bytes an aborted transaction stored, and what was read of them, are Dead
Poison(tg, id) == [w \in Slots |-> IF tg[w] = By(id) THEN Dead ELSE tg[w]]

\* delete tran: the thread has no Transaction any more
Deleted(t) ==
    /\ t_id' = [t_id EXCEPT ![t] = 0]
    /\ is_ro' = [is_ro EXCEPT ![t] = FALSE]
    /\ writes' = [writes EXCEPT ![t] = <<>>]
    /\ opw' = [opw EXCEPT ![t] = 1]
    /\ rd' = [rd EXCEPT ![t] = NoReads]
    /\ wr' = [wr EXCEPT ![t] = NoReads]

\* tm.cpp:628-631 and 679-682: clear_writes; delete tran; then batcher->leave(true)
abort_cleanup(t) ==
    /\ pc[t] = "abort"
    /\ segs' = Settled(segs, t_id[t], "aborted")
    /\ frees' = Settled(frees, t_id[t], "aborted")
    /\ UNCHANGED <<heap, noop, oom, late>>
    /\ access' = clear_writes(access, writes[t])
    /\ failed' = [failed EXCEPT ![t] = TRUE]
    /\ pc' = [pc EXCEPT ![t] = "leave"]
    /\ Deleted(t)
    /\ tags' = [w \in Slots |-> [c \in {0, 1} |->
                  IF tags[w][c] = By(t_id[t]) THEN Dead ELSE tags[w][c]]]
    /\ rdtag' = [u \in DOMAIN rdtag |-> IF u = t THEN NoTags ELSE Poison(rdtag[u], t_id[t])]
    /\ torn' = [torn EXCEPT ![t] = Torn(t_id[t], Range(writes[t]))]
    /\ spur' = [spur EXCEPT ![t] = FALSE]
    /\ UNCHANGED <<tran_counter, copies, ctl, written, remaining, wait, lock_w,
                   ops, begins, pend, creads, hitw, raced, installed, commits, onlyIncs,
                   ryw, idem>>

\* -------------------------------------------------------------- tm_end
\* tm.cpp:576-581: a read-write transaction adds its words to Region::written
end_adds(ro, ws) == IF ~ro /\ ws # <<>> THEN ws ELSE <<>>

\* the words of ws that are not yet in the list
to_add(ws, list) == SelectSeq(ws, LAMBDA x : x \notin Range(list))

\* help.hpp:103-107, called at tm.cpp:579-580: LockFreeList::add up to the
\* compare-exchange that makes the new node the tail, for the next word of
\* tran->writes (the loads and the failed compare-exchanges before it write
\* nothing shared)
list_add(t) ==
    /\ pc[t] \in {"live", "adding"}
    /\ end_adds(is_ro[t], to_add(writes[t], written)) # <<>>
    /\ written' = Append(written, Head(to_add(writes[t], written)))
    /\ pc' = [pc EXCEPT ![t] = "add_cnt"]
    /\ UNCHANGED <<tran_counter, copies, access, ctl, remaining, wait, lock_w,
                   t_id, is_ro, writes, failed, opw, ops, begins, hist, obs, heap, mem>>

\* help.hpp:108: size++, the last statement of LockFreeList::add
list_size(t) ==
    /\ pc[t] = "add_cnt"
    /\ pc' = [pc EXCEPT ![t] = "adding"]
    /\ UNCHANGED <<tran_counter, copies, access, ctl, written, remaining, wait, lock_w,
                   t_id, is_ro, writes, failed, opw, ops, begins, hist, obs, heap, mem>>

\* help.hpp:100: LockFreeList::size, which add increments after its node is in
\* the list
written_size == Len(written) - Cardinality({t \in DOMAIN pc : pc[t] = "add_cnt"})

\* tm.cpp:572-588: the adds that are still to make, then batcher->leave(false);
\* the Transaction is not used after the adds
tm_end(t) ==
    /\ pc[t] \in {"live", "adding"}
    /\ segs' = Settled(segs, t_id[t], "ended")
    /\ frees' = Settled(frees, t_id[t], "ended")
    /\ noop' = [noop EXCEPT ![t] = Empty(t)]
    /\ UNCHANGED <<heap, oom, late>>
    /\ written' = written \o end_adds(is_ro[t], to_add(writes[t], written))
    /\ failed' = [failed EXCEPT ![t] = FALSE]
    /\ pc' = [pc EXCEPT ![t] = "leave"]
    /\ Deleted(t)
    /\ rdtag' = [rdtag EXCEPT ![t] = NoTags]
    /\ creads' = [w \in Slots |->
                    IF ~is_ro[t] /\ rd[t][w] # NoVal
                    THEN creads[w] \cup {<<t_id[t], rd[t][w][1]>>}
                    ELSE creads[w]]
    /\ UNCHANGED <<tran_counter, copies, access, ctl, remaining, wait, lock_w,
                   ops, begins, tags, pend, hitw, raced, installed, commits, onlyIncs,
                   torn, ryw, idem, spur>>

\* ------------------------------------------------------- Batcher::leave
\* unique_lock<shared_mutex> lock_cv{cv_change}: granted while nobody holds it
\* (a shared holder never keeps the lock across steps, see enter)
unique_lockable(holder) == holder = 0

\* fault: a failed leave that does not ask for the drain
wait_kept(w, f) == w

\* fault: a leaver that is not the last stays counted
not_left(rem) == rem

\* part_004:260: this->remaining--
left(rem) == rem - 1

\* part_004:251-252: if (failed) wait = true
wait_after(w, f) == IF f THEN TRUE ELSE w

\* fault: no leaver takes itself for the last
is_last_never(rem) == FALSE

\* fault: every leaver takes itself for the last
is_last_always(rem) == TRUE

\* part_004:253-254: int expected = 1; remaining.compare_exchange_strong(expected, 0)
is_last(rem) == rem = 1

\* part_004:250-254, 259-262: lock, the wait store, the CAS, and on its failure
\* remaining--, unlock, return.  One step: remaining and wait change under this
\* lock or under the shared lock only.  The argument is not read afterwards.
leave(t) ==
    /\ pc[t] = "leave"
    /\ noop' = IF is_last(remaining) THEN noop ELSE [noop EXCEPT ![t] = FALSE]
    /\ oom' = IF is_last(remaining) THEN oom ELSE [oom EXCEPT ![t] = "none"]
    /\ UNCHANGED <<heap, segs, frees, late>>
    /\ unique_lockable(lock_w)
    /\ wait' = wait_after(wait, failed[t])
    /\ IF is_last(remaining)
       THEN /\ remaining' = 0
            /\ lock_w' = t
            /\ pc' = [pc EXCEPT ![t] = "epoch"]
       ELSE /\ remaining' = left(remaining)
            /\ lock_w' = 0
            /\ pc' = [pc EXCEPT ![t] = "idle"]
    /\ failed' = [failed EXCEPT ![t] = FALSE]
    /\ torn' = IF pc'[t] = "idle" THEN [torn EXCEPT ![t] = NoTorn] ELSE torn
    /\ UNCHANGED <<tran_counter, copies, access, ctl, written,
                   t_id, is_ro, writes, opw, ops, begins, hist, wr, ryw, idem, spur>>

\* ---------------------------------------------------- Region::end_epoch
\* fault: an epoch that flips the byte of every word
epoch_flip_all(c, ws) == [w \in DOMAIN c |-> [c[w] EXCEPT ![RvOffEpoch] = ~c[w][RvOffEpoch]]]

RECURSIVE epoch_ctl(_, _)
\* part_004:276-279: for every node of written, from the tail:
\* *read_version = !(*read_version) on the byte at offset RvOffEpoch
epoch_ctl(c, ws) ==
    IF ws = <<>> THEN c
    ELSE LET w == ws[Len(ws)]
         IN  epoch_ctl([c EXCEPT ![w][RvOffEpoch] = ~c[w][RvOffEpoch]], SubSeq(ws, 1, Len(ws) - 1))

\* fault: an epoch that resets no access field
epoch_access_kept(acc, ws) == acc

RECURSIVE epoch_access(_, _)
\* part_004:277, 280: access->store(0) for every node of written
epoch_access(acc, ws) ==
    IF ws = <<>> THEN acc
    ELSE epoch_access([acc EXCEPT ![ws[Len(ws)]] = 0], SubSeq(ws, 1, Len(ws) - 1))

\* part_004:275: if (written.size != 0): the nodes that end_epoch goes through
traversed(list, size) == IF size # 0 THEN list ELSE <<>>

\* part_004:255 and 274-284
end_epoch(t) ==
    /\ pc[t] = "epoch"
    /\ segs' = Settled_all(segs)
    /\ frees' = Settled_all(frees)
    /\ UNCHANGED <<heap, noop, oom, late>>
    /\ ctl' = epoch_ctl(ctl, traversed(written, written_size))
    /\ access' = epoch_access(access, traversed(written, written_size))
    /\ written' = IF written_size # 0 THEN <<>> ELSE written
    /\ pc' = [pc EXCEPT ![t] = "leave_rel"]
    /\ installed' = [w \in Slots |-> IF w \in Range(traversed(written, written_size))
                                      THEN pend[w] ELSE installed[w]]
    /\ commits' = [w \in Slots |->
                     commits[w] + Cardinality({i \in 1..Len(traversed(written, written_size)) :
                                                  written[i] = w})]
    /\ raced' = hitw \cap Range(traversed(written, written_size))
    /\ hitw' = {}
    /\ creads' = [w \in Slots |-> {}]
    /\ UNCHANGED <<tran_counter, copies, remaining, wait, lock_w,
                   t_id, is_ro, writes, failed, opw, ops, begins,
                   rd, rdtag, tags, pend, onlyIncs, obs>>

\* part_004:256-258: wait = false; lock_cv.unlock(); cv.notify_all(); return.
\* One step: a woken thread is back at the lock of enter, where it may stay as
\* long as a late notification would have kept it blocked.
leave_unlock(t) ==
    /\ pc[t] = "leave_rel"
    /\ noop' = [noop EXCEPT ![t] = FALSE]
    /\ oom' = [oom EXCEPT ![t] = "none"]
    /\ UNCHANGED <<heap, segs, frees, late>>
    /\ wait' = FALSE
    /\ lock_w' = 0
    /\ pc' = [u \in DOMAIN pc |->
                IF u = t THEN "idle"
                ELSE IF pc[u] = "cv_wait" THEN "enter"
                ELSE pc[u]]
    /\ torn' = [torn EXCEPT ![t] = NoTorn]
    /\ UNCHANGED <<tran_counter, copies, access, ctl, written, remaining,
                   t_id, is_ro, writes, failed, opw, ops, begins, hist, wr, ryw, idem, spur>>

\* ------------------------------------------------------------ tm_alloc
\* fault: tot_size is counted up before the test
alloc_tot_blind(tot, n, ok) == tot + n

\* tm.cpp:713: not (reg->tot_size + size > MAX_SIZE)
fits(tot, n) == tot + n <= MAX_SIZE

\* fault: next_segment is left where it is
alloc_next_stuck(next, n, ok) == next

\* tm.cpp:713-717: reg->next_segment = reg->next_segment + size*sizeof(Word),
\* unless nomem was returned
alloc_next(next, n, ok) == IF ok THEN next + n * SizeofWord ELSE next

\* tm.cpp:713-718: reg->tot_size += size, unless nomem was returned
alloc_tot(tot, n, ok) == IF ok THEN tot + n ELSE tot

\* tm.cpp:707-724, for a segment of n bytes.  One step: all of it runs under
\* the mutex lock_alloc, which protects next_segment and tot_size and is not
\* held across calls.  *target receives the old next_segment; nothing is
\* recorded in the Transaction.  (A read-only transaction does not allocate:
\* the caller's contract.)
tm_alloc(t, n) ==
    /\ pc[t] = "live"
    /\ ~is_ro[t]
    /\ ops < MaxOps
    /\ ops' = ops + 1
    /\ next_segment' = alloc_next(next_segment, n, fits(tot_size, n))
    /\ tot_size' = alloc_tot(tot_size, n, fits(tot_size, n))
    /\ segs' = IF fits(tot_size, n)
               THEN segs \cup {[base |-> next_segment, n |-> n, by |-> t_id[t], st |-> "live"]}
               ELSE segs
    /\ UNCHANGED <<tran_counter, copies, access, ctl, written, remaining, wait, lock_w,
                   pc, t_id, is_ro, writes, failed, opw, begins, hist, obs, frees, noop, late>>
    /\ oom' = IF fits(tot_size, n) THEN oom
              ELSE [oom EXCEPT ![t] =
                      IF /\ oom[t] # "changed"
                         /\ heap' = heap
                         /\ copies' = copies /\ access' = access /\ ctl' = ctl
                         /\ written' = written /\ remaining' = remaining
                         /\ wait' = wait /\ lock_w' = lock_w
                         /\ pc' = pc /\ t_id' = t_id /\ writes' = writes
                      THEN "kept" ELSE "changed"]

\* ------------------------------------------------------------- tm_free
\* the caller's contract: b is the base of a segment that this transaction
\* allocated, or that a committed transaction allocated in a batch that has
\* ended, and that no transaction has freed or is freeing
freeable(t, b) ==
    /\ \E s \in segs : s.base = b /\ (s.st = "done" \/ (s.st = "live" /\ s.by = t_id[t]))
    /\ \A f \in frees : f.base = b => f.st = "aborted"

\* fault: a tm_free that gives the bytes of the segment back at the call
tm_free_eager(t, b) ==
    /\ pc[t] = "live"
    /\ ~is_ro[t]
    /\ freeable(t, b)
    /\ ops < MaxOps
    /\ ops' = ops + 1
    /\ frees' = frees \cup {[base |-> b, by |-> t_id[t], st |-> "live"]}
    /\ tot_size' = tot_size - (CHOOSE s \in segs : s.base = b).n
    /\ UNCHANGED <<tran_counter, copies, access, ctl, written, remaining, wait, lock_w,
                   pc, t_id, is_ro, writes, failed, opw, begins, hist, obs,
                   next_segment, segs, noop, oom, late>>

\* tm.cpp:732-734: return true; the arguments are unused
tm_free(t, b) ==
    /\ pc[t] = "live"
    /\ ~is_ro[t]
    /\ freeable(t, b)
    /\ ops < MaxOps
    /\ ops' = ops + 1
    /\ frees' = frees \cup {[base |-> b, by |-> t_id[t], st |-> "live"]}
    /\ UNCHANGED <<tran_counter, copies, access, ctl, written, remaining, wait, lock_w,
                   pc, t_id, is_ro, writes, failed, opw, begins, hist, obs, heap, segs, noop, oom, late>>

\* ---------------------------------------------------------------- Next
Next ==
    \/ \E t \in Threads, ro \in BOOLEAN : tm_begin(t, ro)
    \/ \E t \in Threads : enter(t)
    \/ \E t \in Threads : spurious_wakeup(t)
    \/ \E t \in Threads, w \in Words : tm_read(t, w)
    \/ \E t \in Threads : rd_second(t)
    \/ \E t \in Threads : rd_copy(t)
    \/ \E t \in Threads, w \in Words, v \in 1..MaxVal, spurious \in BOOLEAN : tm_write(t, w, v, spurious)
    \/ \E t \in Threads : abort_cleanup(t)
    \/ \E t \in Threads : tm_end(t)
    \/ \E t \in Threads : leave(t)
    \/ \E t \in Threads : end_epoch(t)
    \/ \E t \in Threads : leave_unlock(t)

Spec == Init /\ [][Next]_vars

\* ------------------------------------------------- the counter wraps
\* The region after UintMod - 2 transactions that wrote nothing: the next
\* values of ++tran_counter are UintMod - 1, 0 and 1.
InitWrap == InitAt(Threads, UintMod - 2)

SpecWrap == InitWrap /\ [][Next]_vars

\* ------------------------------------------------------ the allocator
\* the followed words of segment s
SegSlots(s) == {w \in Slots : s.base <= Addr(w) /\ Addr(w) < s.base + s.n}

\* the words that the callers use: the first word of the initial segment
\* (tm_start) and the words of the segments that tm_alloc has handed out
Handed == {1} \cup UNION {SegSlots(s) : s \in segs}

\* the bases tm_alloc has returned
Bases == {s.base : s \in segs}

\* the sizes asked of tm_alloc, multiples of the alignment: one word, and all
\* that is left of the capacity after tm_create
Sizes == {Align, ((MAX_SIZE - InitSize) \div Align) * Align}

\* The two threads, with allocations and frees; the compare-exchange of
\* tm_write fails on a foreign owner only, and the callers write to the words
\* whose slot is inside the mapping.
NextAlloc ==
    \/ \E t \in Threads, ro \in BOOLEAN : tm_begin(t, ro)
    \/ \E t \in Threads : enter(t)
    \/ \E t \in Threads : spurious_wakeup(t)
    \/ \E t \in Threads, w \in Handed : tm_read(t, w)
    \/ \E t \in Threads : rd_second(t)
    \/ \E t \in Threads : rd_copy(t)
    \/ \E t \in Threads, w \in {x \in Handed : mapped(Addr(x))}, v \in 1..MaxVal :
          tm_write(t, w, v, FALSE)
    \/ \E t \in Threads, n \in Sizes : tm_alloc(t, n)
    \/ \E t \in Threads, b \in Bases : tm_free(t, b)
    \/ \E t \in Threads : abort_cleanup(t)
    \/ \E t \in Threads : tm_end(t)
    \/ \E t \in Threads : leave(t)
    \/ \E t \in Threads : end_epoch(t)
    \/ \E t \in Threads : leave_unlock(t)

SpecAlloc == Init /\ [][NextAlloc]_vars

\* ------------------------------------------ the adds of tm_end, one by one
\* The two threads, with every LockFreeList::add of tm_end in steps of its own.
NextList ==
    \/ \E t \in Threads, ro \in BOOLEAN : tm_begin(t, ro)
    \/ \E t \in Threads : enter(t)
    \/ \E t \in Threads : spurious_wakeup(t)
    \/ \E t \in Threads, w \in Words : tm_read(t, w)
    \/ \E t \in Threads : rd_second(t)
    \/ \E t \in Threads : rd_copy(t)
    \/ \E t \in Threads, w \in Words, v \in 1..MaxVal, spurious \in BOOLEAN : tm_write(t, w, v, spurious)
    \/ \E t \in Threads : abort_cleanup(t)
    \/ \E t \in Threads : list_add(t)
    \/ \E t \in Threads : list_size(t)
    \/ \E t \in Threads : tm_end(t)
    \/ \E t \in Threads : leave(t)
    \/ \E t \in Threads : end_epoch(t)
    \/ \E t \in Threads : leave_unlock(t)

SpecList == Init /\ [][NextList]_vars

\* ------------------------------------------------- the draining batcher
\* The two threads and a third one.  Read-write transactions are begun by the
\* two threads, within MaxBegin, and abort on conflicts only; read-only
\* transactions are begun by the readers, without bound, and read nothing.
Clients == {1, 2, 3}
Readers == {2, 3}

InitDrain == InitOver(Clients)

\* tm.cpp:551-559 for is_ro = true, any number of times.  The id of a read-only
\* transaction is never read (tm_read returns at tm.cpp:616-618 before any use
\* of t_id, and tm_end adds nothing for it), so tran_counter is left where it
\* is and the transaction carries no id: the ids of the read-write
\* transactions stay distinct, and the states stay finitely many.
tm_begin_ro(t) ==
    /\ pc[t] = "idle"
    /\ UNCHANGED <<heap, mem>>
    /\ is_ro' = [is_ro EXCEPT ![t] = TRUE]
    /\ pc' = [pc EXCEPT ![t] = "enter"]
    /\ UNCHANGED <<tran_counter, t_id, begins, copies, access, ctl, written, remaining,
                   wait, lock_w, writes, failed, opw, ops, hist, obs>>

NextDrain ==
    \/ \E t \in Threads : tm_begin(t, FALSE)
    \/ \E t \in Readers : tm_begin_ro(t)
    \/ \E t \in Clients : enter(t)
    \/ \E t \in Clients : spurious_wakeup(t)
    \/ \E t \in Threads, w \in Words, v \in 1..MaxVal : tm_write(t, w, v, FALSE)
    \/ \E t \in Clients : abort_cleanup(t)
    \/ \E t \in Clients : tm_end(t)
    \/ \E t \in Clients : leave(t)
    \/ \E t \in Clients : end_epoch(t)
    \/ \E t \in Clients : leave_unlock(t)

\* Scheduling: a thread inside a call of the library keeps running, and a thread
\* that asks for cv_change again and again gets it; every admitted transaction
\* is ended by its thread unless it aborts.  Nothing obliges a thread to begin
\* a transaction or to write.
FairDrain ==
    \A t \in Clients :
        /\ SF_vars(enter(t))
        /\ WF_vars(abort_cleanup(t))
        /\ WF_vars(tm_end(t))
        /\ SF_vars(leave(t))
        /\ WF_vars(end_epoch(t))
        /\ WF_vars(leave_unlock(t))

SpecDrain == InitDrain /\ [][NextDrain]_vars /\ FairDrain

\* ============================================================ properties
\* a thread with a Transaction object
Running(t) == pc[t] \in {"live", "rd2", "rd_cp", "abort"}

\* a thread counted in Batcher::remaining
Counted(t) == Running(t) \/ pc[t] = "leave"

\* every thread is outside the batch: not counted, or releasing the lock after the epoch
Quiet == \A t \in Threads : pc[t] \in {"idle", "enter", "cv_wait", "leave_rel"}

Occurrences(ws, w) == Cardinality({i \in 1..Len(ws) : ws[i] = w})

\* ---- C1
\* the read-write transactions of the running batch that have called tm_end
CommittedIds ==
    {p[1] : p \in UNION {creads[w] : w \in Words}} \cup {access[w] : w \in Range(written)}

\* i read from w a value that is not the one j committed to w: i did not see j
Precedes(i, j) ==
    /\ i # j
    /\ \E w \in Range(written) :
          /\ access[w] = j
          /\ \E p \in creads[w] : p[1] = i /\ p[2] # pend[w]

\* C1: the committed transactions of a batch are equivalent to some serial order
\* of them: there is a ranking in which every transaction that did not see a
\* committed write comes before its writer (in particular two transactions that
\* each read what the other writes do not both commit).
C1_Serializable ==
    \E rank \in [CommittedIds -> 1..Cardinality(CommittedIds)] :
        \A i, j \in CommittedIds : Precedes(i, j) => rank[i] < rank[j]

\* ---- C2
\* C2: once a batch has ended, every committed write of it is what the read copy
\* delivers: a transaction that reads a word it does not own reads the value of
\* the latest committed write to that word whose batch has ended.
C2_Published ==
    \A t \in Threads, w \in Words : rd[t][w] \in {NoVal, Some(installed[w])}

\* ---- C3
\* C3: a word has at most one writer in a batch: counting the running
\* transactions that wrote it and the committed writes to it waiting for the
\* epoch there is at most one, and access holds that writer's id until the
\* writer aborts or the batch ends.
C3_SingleWriter ==
    \A w \in Words :
        /\ Cardinality({t \in Threads : w \in Range(writes[t])}) + Occurrences(written, w) <= 1
        /\ \A t \in Threads : w \in Range(writes[t]) => access[w] = t_id[t]
        /\ w \in Range(written) => access[w] # 0 /\ \A t \in Threads : t_id[t] # access[w]

\* a tm_write has met a word that another transaction owns, and its transaction aborts
C3_Refused ==
    \E t \in Threads, w \in Words :
        pc[t] = "abort" /\ w \in hitw /\ access[w] \notin {0, t_id[t]}

\* ---- C4
\* C4: when two transactions of a batch write the same word, one commits and the
\* other aborts, and a later read-only transaction reads the committed value.
C4_RaceWinnerRead ==
    \A t \in Threads :
        is_ro[t] => \A w \in raced : rd[t][w] \in {NoVal, Some(installed[w])}

\* ---- C5
\* C5: every read of a read-only transaction returns the value installed by the
\* last epoch that ran before it began.
C5_Snapshot ==
    \A t \in Threads :
        (Running(t) /\ is_ro[t]) =>
            \A w \in Words : rd[t][w] = NoVal \/ rd[t][w][1] = installed[w]

\* ---- C6
\* C6: an aborted transaction has no effect: no transaction reads bytes that an
\* aborted transaction stored, no committed word carries such bytes, and a word
\* whose access is not 0 is owned by a running transaction or by a committed
\* one of the running batch (the words of an aborted one are released).
C6_AbortNoEffect ==
    /\ \A t \in Threads, w \in Words : ~rdtag[t][w].dead
    /\ \A w \in Range(written) : ~tags[w][write_copy(read_version(w))].dead
    /\ \A w \in Words :
          access[w] # 0 =>
              \/ \E t \in Threads : Running(t) /\ t_id[t] = access[w]
              \/ w \in Range(written)

\* a transaction has read a word whose write copy holds the bytes of an aborted one
C6_ReadAfterAbort ==
    \E t \in Threads, w \in Words :
        /\ pc[t] = "live"
        /\ rd[t][w] # NoVal
        /\ access[w] = 0
        /\ tags[w][write_copy(read_version(w))] = Dead

\* ---- C7
\* C7: when every transaction reads one word and writes back the value plus one,
\* then once all threads are done the word holds the number of committed
\* increments.
C7_NoLostUpdate ==
    (onlyIncs /\ \A t \in Threads : pc[t] = "idle") =>
        \A w \in Words : ReadCopyVal(w) = commits[w]

\* ---- C8
\* C8: whenever no transaction is live, the access field of every word is 0.
C8_AccessZero ==
    Quiet => \A w \in Words : access[w] = 0

\* a batch with a committed write has ended
C8_AfterBatch ==
    Quiet /\ \E w \in Words : commits[w] > 0

\* ---- C9
\* C9: while a batch runs the read copy of every word is immutable: only a step
\* of end_epoch may change the value of a read copy or which copy is read.
C9_ReadCopyImmutable ==
    [][(\E w \in Words : \/ ReadCopyVal(w)' # ReadCopyVal(w)
                         \/ read_version(w)' # read_version(w))
          => \E t \in Threads : pc[t] = "epoch" /\ pc'[t] = "leave_rel"]_vars

\* a transaction has read a word that another running transaction has written
C9_ReadWhileWritten ==
    \E t \in Threads, u \in Threads, w \in Words :
        /\ Running(t) /\ Running(u)
        /\ access[w] = t_id[u]
        /\ w \in Range(writes[u])
        /\ rd[t][w] # NoVal

\* ---- C10
\* C10: the epoch commit is exclusive: the thread that runs it holds the lock
\* that gates entry, no transaction is counted in the batch and every other
\* thread is outside of it.
C10_EpochExclusive ==
    \A t \in Threads :
        pc[t] \in {"epoch", "leave_rel"} =>
            /\ lock_w = t
            /\ remaining = 0
            /\ \A u \in Threads \ {t} : pc[u] \in {"idle", "enter", "cv_wait"}

\* the last leaver is about to commit writes while another thread is at the gate
C10_EpochWithEntrant ==
    \E t \in Threads, u \in Threads :
        pc[t] = "epoch" /\ written # <<>> /\ pc[u] = "enter"

\* ---- C11
\* C11: one epoch commit per batch end: a thread starts end_epoch only by the
\* leave that takes remaining from 1 to 0; end_epoch runs with remaining = 0,
\* once (its thread then only releases the lock and returns); while it is
\* pending or running waiting does not change and no thread is admitted; and
\* waiting is cleared only by the thread that has completed end_epoch.
C11_OneEpochPerBatchEnd ==
    [][/\ \A t \in Threads :
             /\ (pc[t] # "epoch" /\ pc'[t] = "epoch")
                    => pc[t] = "leave" /\ remaining = 1 /\ remaining' = 0
             /\ (pc[t] = "epoch" /\ pc'[t] # "epoch")
                    => pc'[t] = "leave_rel" /\ remaining = 0 /\ remaining' = 0
             /\ pc[t] = "epoch"
                    => wait' = wait /\ \A u \in Threads : Running(u)' => Running(u)
             /\ (pc[t] = "leave_rel" /\ pc'[t] # "leave_rel") => pc'[t] = "idle"
       /\ (remaining = 1 /\ remaining' = 0)
             => \E t \in Threads : pc[t] = "leave" /\ pc'[t] = "epoch"
       /\ (wait /\ ~wait') => \E t \in Threads : pc[t] = "leave_rel"]_vars

\* end_epoch has completed while a read-write transaction is blocked in enter
C11_EpochDoneBeforeRelease ==
    \E t \in Threads, u \in Threads :
        pc[t] = "leave_rel" /\ pc[u] = "cv_wait" /\ wait

\* ---- C12
\* C12: outside the critical sections of enter and leave, remaining is the number
\* of transactions that were admitted and have not left (tm_end or the aborting
\* tm_read / tm_write has not returned); remaining is never negative.
C12_RemainingCountsLive ==
    /\ remaining >= 0
    /\ (\A t \in Threads : pc[t] \notin {"epoch", "leave_rel"})
          => remaining = Cardinality({t \in Threads : Counted(t)})

\* two transactions are counted and one of them is about to leave
C12_TwoCounted ==
    remaining = 2 /\ \E t \in Threads : pc[t] = "leave"

\* ---- C13
\* C13: admission rule of enter: a thread that evaluates the rule while waiting
\* is true and its transaction is read-write blocks, and remaining is not
\* incremented for it; in every other case it is admitted at once (remaining
\* incremented); a blocked thread can only go back to evaluate the rule.
C13_Admission ==
    [][\A t \in Threads :
          /\ (pc[t] = "enter" /\ pc'[t] # "enter") =>
                IF wait /\ ~is_ro[t]
                THEN pc'[t] = "cv_wait" /\ remaining' = remaining
                ELSE pc'[t] = "live" /\ remaining' = remaining + 1
          /\ pc[t] = "cv_wait" => pc'[t] \in {"cv_wait", "enter"}]_vars

\* a read-write transaction is blocked while a read-only one runs in the draining batch
C13_BlockedWhileDraining ==
    \E t \in Threads, u \in Threads :
        /\ pc[t] = "cv_wait" /\ ~is_ro[t]
        /\ wait /\ Running(u)

\* ---- C14
\* C14: the batcher starts open (waiting false, remaining 0); a leave with
\* failed = true sets waiting; waiting is reset only by the thread that has run
\* end_epoch, when it releases the lock, and then waiting is false and
\* remaining is 0.
C14_DrainOnAbort ==
    /\ (~wait /\ remaining = 0)
    /\ [][/\ \A t \in Threads :
                /\ (pc[t] = "leave" /\ failed[t] /\ pc'[t] # "leave") => wait'
                /\ (pc[t] = "leave_rel" /\ pc'[t] = "idle") => ~wait' /\ remaining' = 0
          /\ (wait /\ ~wait')
                => \E t \in Threads : pc[t] = "leave_rel" /\ pc'[t] = "idle"]_vars

\* a failed leave has set waiting and the batch is draining
C14_Draining ==
    wait /\ remaining > 0 /\ \A t \in Threads : pc[t] \notin {"epoch", "leave_rel"}

\* ---- C17
\* C17 as stated: when the tm_read / tm_write that aborted the transaction of t
\* returns, every word the transaction had acquired has access = 0 and no word
\* carries its id.
C17_TeardownZero ==
    [][\A t \in Threads :
          (torn[t].on /\ ~torn'[t].on) =>
              /\ \A w \in torn[t].ws : access'[w] = 0
              /\ \A w \in Words : access'[w] # torn[t].id]_vars

\* C17, amended: the abort stores 0 into access of every word the transaction
\* had acquired before it leaves the batch, and it leaves once, with failed =
\* true, taking one off remaining; from then on and when the call returns no
\* word carries its id (a released word may by then belong to another
\* transaction).
C17_TeardownReleased ==
    [][\A t \in Threads :
          /\ (pc[t] = "abort" /\ pc'[t] # "abort") =>
                /\ pc'[t] = "leave" /\ failed'[t]
                /\ \A w \in Range(writes[t]) : access'[w] = 0
          /\ (torn[t].on /\ pc[t] = "leave" /\ pc'[t] # "leave") =>
                failed[t] /\ remaining' = remaining - 1
          /\ torn[t].on =>
                /\ pc[t] \in {"leave", "epoch", "leave_rel"}
                /\ \A w \in Words : access[w] # torn[t].id
          /\ (torn[t].on /\ ~torn'[t].on) =>
                /\ pc'[t] = "idle"
                /\ \A w \in Words : access'[w] # torn[t].id]_vars

\* a word released by an abort belongs to another transaction before the abort has returned
C17_WordRetaken ==
    \E t \in Threads, w \in Words :
        torn[t].on /\ w \in torn[t].ws /\ access[w] # 0

\* ---- C18
\* C18: read-your-own-write: a tm_read of a word by the transaction that wrote it
\* delivers the value it last wrote, and never takes the path that can abort.
C18_ReadYourWrite ==
    /\ ryw
    /\ \A t \in Threads : pc[t] \in {"rd2", "rd_cp"} => wr[t][opw[t]] = NoVal

\* a running transaction has read a word it had written
C18_OwnRead ==
    \E t \in Threads, w \in Words :
        Running(t) /\ wr[t][w] # NoVal /\ rdtag[t][w] = By(t_id[t])

\* ---- C19
\* C19: a tm_write that repeats the value its transaction has written to the word
\* returns true and changes nothing: the copies, access, the owned words of the
\* transaction, written and the batcher.
C19_IdempotentRewrite ==
    idem # "diff"

\* a transaction has repeated a write
C19_Rewritten ==
    idem = "same"

\* ---- C20
\* C20: the ownership CAS of tm_write on a word whose access is 0 never fails
\* (so that transactions writing disjoint words never abort).
C20_UncontendedCas ==
    \A t \in Threads : ~spur[t]

\* ---- C15
\* C15: progress under contention: once a read-write transaction aborts, an
\* epoch commit eventually occurs, whatever read-only transactions begin in the
\* meantime, provided every admitted transaction ends or aborts.
C15_DrainProgress ==
    (\E t \in Clients : pc[t] = "abort") ~> (\E t \in Clients : pc[t] = "leave_rel")

\* ---- C16
\* C16: no starvation at admission: a read-write transaction blocked in enter is
\* eventually admitted, under fair scheduling and provided every admitted
\* transaction ends or aborts.
C16_NoStarvation ==
    \A t \in Threads : (pc[t] = "cv_wait") ~> (pc[t] = "live")

\* ---- C21
\* C21 as stated: a transaction that performed no operation between tm_begin and
\* tm_end: tm_end returns true, and neither it nor the epoch commit it may
\* trigger changes the copies, the access field or the version bytes of any word.
C21_EmptyChangesNothing ==
    [][\A t \in Threads :
          /\ (pc[t] = "live" /\ Empty(t) /\ pc'[t] = "leave") =>
                ~failed'[t] /\ copies' = copies /\ access' = access /\ ctl' = ctl
          /\ (noop[t] /\ pc[t] = "epoch" /\ pc'[t] # "epoch") =>
                copies' = copies /\ access' = access /\ ctl' = ctl]_vars

\* C21, amended: tm_end of a transaction that performed no operation returns
\* true, adds nothing to written and changes no word; the epoch commit it may
\* trigger changes no copy, and changes the access field and the version bytes
\* of those words only that other transactions of the batch committed.
C21_EmptyAddsNothing ==
    [][\A t \in Threads :
          /\ (pc[t] = "live" /\ Empty(t) /\ pc'[t] = "leave") =>
                /\ ~failed'[t] /\ noop'[t] /\ ~torn'[t].on
                /\ written' = written
                /\ copies' = copies /\ access' = access /\ ctl' = ctl
          /\ (noop[t] /\ pc[t] = "leave" /\ pc'[t] # "leave") => ~failed[t]
          /\ (noop[t] /\ pc[t] = "epoch" /\ pc'[t] # "epoch") =>
                /\ copies' = copies
                /\ \A w \in Words \ Range(written) :
                      access'[w] = access[w] /\ ctl'[w] = ctl[w]]_vars

\* the tm_end of a transaction that performed no operation is about to run the
\* epoch commit of a batch in which another transaction committed a write
C21_EmptyTriggersEpoch ==
    \E t \in Threads : noop[t] /\ pc[t] = "epoch" /\ written # <<>>

\* ---- C22
\* the transaction of t has read or written a word of segment s
Used(t, s) == \E w \in SegSlots(s) : rd[t][w] # NoVal \/ wr[t][w] # NoVal

\* C22: allocation atomicity: a transaction other than the one that allocated a
\* segment uses it only once the allocating transaction has committed and the
\* epoch of its batch has run, and no transaction uses a segment once a
\* transaction that freed it has committed and the epoch of its batch has run.
C22_AllocationAtomicity ==
    \A t \in Threads :
        Running(t) =>
            /\ \A s \in segs : (s.by # t_id[t] /\ Used(t, s)) => s.st = "done"
            /\ \A f \in frees, s \in segs :
                  (f.st = "done" /\ s.base = f.base) => ~Used(t, s)

\* ---- C23
\* C23: once a transaction that called tm_free(p) has committed and the epoch of
\* its batch has run, no tm_read of p returns true: no transaction holds a
\* value read from a word of that segment.
C23_ReadAfterFreeFails ==
    \A f \in frees, s \in segs :
        (f.st = "done" /\ s.base = f.base) =>
            \A t \in Threads, w \in SegSlots(s) : rd[t][w] = NoVal

\* ---- C24
RECURSIVE Consumed(_)
\* the bytes of the segments of S
Consumed(S) ==
    IF S = {} THEN 0
    ELSE LET s == CHOOSE x \in S : TRUE IN s.n + Consumed(S \ {s})

\* C24: the segments of an aborted transaction are released by the abort: the
\* space consumed and the next free segment are those of the initial segment
\* and of the segments allocated by transactions that did not abort.
C24_AbortReleasesAllocations ==
    LET kept == {s \in segs : s.st # "aborted"}
    IN  /\ tot_size = InitSize + Consumed(kept)
        /\ next_segment = (InitSize + Consumed(kept)) * SizeofWord

\* ---- C25
\* C25: a segment that one transaction allocated and freed is, once that
\* transaction has committed and the epoch of its batch has run, usable by no
\* later transaction, as before the transaction began: no transaction reads or
\* writes a word of it.
C25_AllocFreeNoNetChange ==
    \A s \in segs, f \in frees :
        (f.base = s.base /\ f.by = s.by /\ s.st = "done" /\ f.st = "done") =>
            \A t \in Threads : ~Used(t, s)

\* ---- C26
\* C26: a tm_alloc that returns nomem changes nothing: next_segment, tot_size,
\* every word slot, written and the batcher are as before the call, and the
\* transaction is as it was (live, counted in remaining, with its id and its
\* words), so that what it does next is what it would have done without the call.
C26_NomemKeepsAll ==
    /\ \A t \in Threads : oom[t] # "changed"
    /\ \A t \in Threads : oom[t] = "kept" => Counted(t) \/ pc[t] \in {"epoch", "leave_rel", "fault"}
    /\ tot_size <= MAX_SIZE

\* a transaction that was refused a segment is live and owns words
C26_LiveAfterNomem ==
    \E t \in Threads :
        oom[t] = "kept" /\ pc[t] = "live" /\ writes[t] # <<>> /\ remaining >= 1

\* ---- C27
\* a thread with a transaction id minted by tm_begin
Minted(t) == pc[t] \in {"enter", "cv_wait"} \/ Running(t)

\* C27: every id minted by tm_begin is nonzero, and two transactions of a batch,
\* live or committed and waiting for the epoch, never carry the same id, also
\* after tran_counter has wrapped around.
C27_IdsNonZeroDistinct ==
    /\ \A t \in Threads : Minted(t) => t_id[t] # 0
    /\ \A t, u \in Threads : (t # u /\ Minted(t) /\ Minted(u)) => t_id[t] # t_id[u]
    /\ \A t \in Threads, w \in Range(written) : Minted(t) => access[w] # t_id[t]

\* ---- C28
\* C28: a read-only transaction never waits and never aborts: its tm_begin does
\* not block on the condition variable, its tm_read delivers on the first load
\* whatever access holds (it is never between the loads, nor aborting), and it
\* leaves the batch by tm_end only, which returns true.
C28_ReadOnlyWaitFree ==
    \A t \in Threads :
        /\ is_ro[t] => pc[t] \in {"enter", "live"}
        /\ (pc[t] \in {"leave", "epoch", "leave_rel"} /\ ~torn[t].on) => ~failed[t]

\* a read-only transaction runs in a draining batch, with a value read from a
\* word that another transaction owns
C28_ReadOnlyAmongWriters ==
    \E t \in Threads, w \in Words :
        /\ is_ro[t] /\ pc[t] = "live" /\ wait
        /\ rd[t][w] # NoVal /\ access[w] # 0

\* ---- C29
\* own steps that a thread at this position still runs, at most, before its call
\* returns (a call is entered at "idle" or at "live", and returns there)
StepsLeft(p) ==
    CASE p = "leave_rel" -> 1
      [] p = "epoch"     -> 2
      [] p = "leave"     -> 3
      [] p = "abort"     -> 4
      [] p = "rd_cp"     -> 1
      [] p = "rd2"       -> 5
      [] p = "enter"     -> 1
      [] OTHER           -> 0

\* the step that thread t can take at its position
StepOf(t) ==
    \/ enter(t) \/ rd_second(t) \/ rd_copy(t) \/ abort_cleanup(t)
    \/ leave(t) \/ end_epoch(t) \/ leave_unlock(t)

\* C29: the only place where a thread waits for other transactions is the
\* tm_begin of a read-write transaction while the batch drains.  Only such a
\* thread blocks on the condition variable; every other thread inside a call
\* can take its step, or is at the lock of the batcher while the thread that
\* holds it completes the epoch commit without waiting for anybody; tm_alloc
\* and tm_free are one step; and every step of a call other than a read-write
\* tm_begin brings the call nearer to its return.
C29_SingleSuspensionPoint ==
    /\ [](\A t \in Threads :
            /\ pc[t] = "cv_wait" => ~is_ro[t]
            /\ pc[t] \in {"rd2", "rd_cp", "abort", "epoch", "leave_rel"} => ENABLED StepOf(t)
            /\ pc[t] \in {"enter", "leave"} =>
                  \/ ENABLED StepOf(t)
                  \/ \E u \in Threads \ {t} :
                        lock_w = u /\ pc[u] \in {"epoch", "leave_rel"} /\ ENABLED StepOf(u))
    /\ [][/\ (\/ heap' # heap
              \/ \E r \in (segs' \ segs) \cup (frees' \ frees) : r.st = "live"
              \/ \E t \in Threads : oom[t] = "none" /\ oom'[t] # "none") => pc' = pc
          /\ \A t \in Threads :
             /\ (pc[t] = "live" /\ pc'[t] # "live") => pc'[t] \in {"rd2", "abort", "leave", "fault"}
             /\ (pc'[t] # pc[t] /\ pc[t] \notin {"idle", "live", "cv_wait"}
                   /\ ~(pc[t] = "enter" /\ ~is_ro[t]))
                   => StepsLeft(pc'[t]) < StepsLeft(pc[t])]_vars

\* a read-write tm_begin is blocked on the condition variable while the
\* transaction of another thread, which has allocated a segment, is between
\* the two loads of a tm_read
C29_OnlyWriterBlocked ==
    \E t \in Threads, u \in Threads :
        /\ pc[t] = "cv_wait" /\ ~is_ro[t] /\ wait
        /\ pc[u] = "rd2" /\ \E s \in segs : s.by = t_id[u]

\* ---- C30
\* C30: no dirty read: the bytes that a tm_read of a read-write transaction
\* delivers for a word are those of its own pending write to it, or those of
\* the read copy; they are never bytes stored in the running batch by another
\* transaction, live or committed, whatever happens to access between the two
\* loads of tm_read or between the second load and the copy.
C30_NoDirtyRead ==
    \A t \in Threads, w \in Words :
        (Running(t) /\ ~is_ro[t]) =>
            \/ rdtag[t][w] = By(t_id[t]) /\ wr[t][w] # NoVal
            \/ /\ rdtag[t][w] = tags[w][read_copy(read_version(w))]
               /\ \A u \in Threads \ {t} : Running(u) => rdtag[t][w] # By(t_id[u])
               /\ w \in Range(written) => rdtag[t][w] # By(access[w])

\* a read-write transaction holds a value read from a word that another running
\* transaction has written, and a tm_read has made its copy after the owner of
\* the word had changed
C30_ReadRacedWithWriter ==
    /\ late
    /\ \E t \in Threads, u \in Threads, w \in Words :
          /\ t # u
          /\ pc[t] = "live" /\ ~is_ro[t] /\ rd[t][w] # NoVal
          /\ Running(u) /\ access[w] = t_id[u] /\ wr[u][w] # NoVal

\* ---- C31
\* C31: the epoch commit flips the read-version (the byte tm_read and tm_write
\* read) and zeroes the access token of every word of written, and leaves the
\* read-version and both copies of every other word as they were
C31_EpochTouchesCommitted ==
    [][(\E t \in Threads : pc[t] = "epoch" /\ pc'[t] = "leave_rel") =>
          \A w \in Slots :
              IF w \in Range(written)
              THEN ctl'[w][RvOffRW] = ~read_version(w) /\ access'[w] = 0
              ELSE /\ ctl'[w][RvOffRW] = read_version(w)
                   /\ copies'[w] = copies[w]]_vars

\* ---- C32
\* C32: tm_free changes nothing at the call: the step that records the call
\* leaves every word slot, next_segment and tot_size, written, the batcher,
\* the segments and every transaction as they were, and the words of a segment
\* whose free is not yet followed by the epoch commit can still be read and
\* written by the transactions of the batch: a tm_read or tm_write of such a
\* word is refused to no live transaction.
C32_FreeChangesNothing ==
    /\ [][(\E f \in frees' \ frees : f.st = "live") =>
             UNCHANGED <<tran_counter, copies, access, ctl, written, heap,
                         remaining, wait, lock_w, pc, t_id, is_ro, writes, failed, segs>>]_vars
    /\ [](\A f \in frees, s \in segs, t \in Threads :
             (f.st \in {"live", "ended"} /\ s.base = f.base /\ pc[t] = "live" /\ ops < MaxOps) =>
                 \A w \in SegSlots(s) :
                     /\ ENABLED tm_read(t, w)
                     /\ (~is_ro[t] /\ mapped(Addr(w))) => ENABLED tm_write(t, w, 1, FALSE))

\* a segment that a committed transaction allocated is freed by a live
\* transaction, and another live transaction holds a value read from it and
\* has written to it
C32_UsedWhileFreed ==
    \E f \in frees, s \in segs, t \in Threads, w \in Slots :
        /\ f.st = "live" /\ s.base = f.base /\ s.st = "done"
        /\ pc[t] = "live" /\ t_id[t] # f.by
        /\ w \in SegSlots(s) /\ mapped(Addr(w))
        /\ wr[t][w] # NoVal

\* ---- C33
\* C33: fresh segments read as zero: a tm_read of a word of a segment handed
\* out by tm_alloc returns, and the value it delivers for a word that no
\* transaction has written is zero, to the allocating transaction and to the
\* transactions that come after its commit.
C33_FreshReadsZero ==
    /\ \A t \in Threads : pc[t] # "fault"
    /\ \A s \in segs, t \in Threads :
          \A w \in SegSlots(s) :
              (tags[w][0] = Fresh /\ tags[w][1] = Fresh /\ rd[t][w] # NoVal) => rd[t][w] = Some(0)

\* ---- C34
\* C34: ownership outlives commit: a word of written keeps, until the epoch
\* commit, the id of the committed transaction that stored its write copy, an
\* id that no running transaction carries; a tm_read or tm_write of it by any
\* live read-write transaction takes neither the own-word branch nor the
\* free-word branch, and a tm_read between its loads on it aborts.
C34_OwnershipOutlivesCommit ==
    \A w \in Range(written) :
        /\ access[w] # 0
        /\ tags[w][write_copy(read_version(w))] = By(access[w])
        /\ \A t \in Threads :
              /\ Running(t) => access[w] # t_id[t]
              /\ (pc[t] = "live" /\ ~is_ro[t]) =>
                    /\ read_branch(is_ro[t], access[w], t_id[t]) = "other"
                    /\ ~second_load_free(access[w])
                    /\ ~cas_succeeds(access[w], FALSE)
                    /\ ~owns_already(access[w], t_id[t])
              /\ (pc[t] = "rd2" /\ opw[t] = w) => ~second_load_free(access[w])

\* a transaction begun after the commit of the writer of w, in the same batch,
\* is aborting on w: w is the only owned word, its owner has committed, and the
\* other thread runs a transaction older than the committed one
C34_LateComerAborts ==
    \E t \in Threads, u \in Threads, w \in Words :
        /\ t # u
        /\ pc[t] = "abort" /\ ~spur[t]
        /\ w \in Range(written) /\ \A x \in Words : access[x] # 0 => x = w
        /\ pc[u] = "live" /\ t_id[u] < access[w] /\ access[w] < t_id[t]

\* ---- C35
\* C35: no double flip: written holds each word at most once; when the epoch
\* commit runs, no thread is inside tm_end or inside a LockFreeList::add, the
\* size of the list is its length, and the words of the list are exactly the
\* words that a transaction owns, all of them committed; after it the list is
\* empty, every access is 0, and the byte that end_epoch flips has been flipped
\* once for every committed write of the word.
C35_NoDoubleFlip ==
    /\ \A w \in Slots : Occurrences(written, w) <= 1
    /\ \A t \in Threads :
          pc[t] = "epoch" =>
              /\ \A u \in Threads \ {t} : pc[u] \in {"idle", "enter", "cv_wait"}
              /\ written_size = Len(written)
              /\ Range(written) = {w \in Slots : access[w] # 0}
    /\ \A t \in Threads :
          pc[t] = "leave_rel" => written = <<>> /\ \A w \in Slots : access[w] = 0
    /\ \A w \in Slots : ctl[w][RvOffEpoch] = (commits[w] % 2 = 1)

\* the epoch commit is about to run on a list that holds the words of two
\* committed transactions
C35_EpochOverTwoCommitters ==
    \E t \in Threads :
        /\ pc[t] = "epoch"
        /\ Len(written) = 2 /\ access[written[1]] # access[written[2]]

\* ---- C36
\* C36: the owned-word list agrees with the access tokens: for every read-write
\* transaction that has its Transaction object, a word is in its writes vector
\* exactly when access of the word holds its id; a nonzero access is the id of
\* such a transaction or of one that committed in the running batch (its word
\* is in written), and never the id of a transaction that has aborted.
C36_OwnedListMatchesAccess ==
    /\ \A t \in Threads :
          (Running(t) /\ ~is_ro[t]) =>
              \A w \in Slots : (w \in Range(writes[t])) <=> (access[w] = t_id[t])
    /\ \A w \in Slots :
          access[w] # 0 =>
              \/ \E t \in Threads : Running(t) /\ ~is_ro[t] /\ t_id[t] = access[w]
              \/ w \in Range(written)
    /\ \A t \in Threads, w \in Slots : torn[t].on => access[w] # torn[t].id

\* a live transaction owns a word while the other thread is leaving after the
\* abort of a transaction that had acquired words, all released
C36_OwnerBesideAborted ==
    \E t \in Threads, u \in Threads, w \in Words :
        /\ t # u
        /\ pc[t] = "live" /\ w \in Range(writes[t]) /\ access[w] = t_id[t]
        /\ torn[u].on /\ torn[u].ws # {}
        /\ \A x \in torn[u].ws : access[x] = 0

\* ---- C37
\* C37: no stuck batcher: while no thread is inside the critical section of
\* leave, wait = true implies remaining > 0, and a thread blocked on the
\* condition variable has wait = true and a counted transaction beside it, which
\* will run the epoch commit or leave it to another counted one; the lock is
\* held across steps only by the thread that runs the epoch commit.
C37_NoStuckBatcher ==
    /\ lock_w = 0 =>
          /\ wait => remaining > 0
          /\ \A t \in DOMAIN pc :
                pc[t] = "cv_wait" => wait /\ \E u \in DOMAIN pc : Counted(u)
    /\ lock_w # 0 => pc[lock_w] \in {"epoch", "leave_rel"}

\* a read-write tm_begin is blocked while one transaction, the last of the
\* draining batch, is still to leave
C37_BlockedBehindLast ==
    \E t \in Threads :
        pc[t] = "cv_wait" /\ wait /\ lock_w = 0 /\ remaining = 1

\* ---- C38
\* C38: a successful read writes nothing shared: every step of a tm_read that
\* does not abort (the first load, the second load, the copy, or the whole
\* iteration when it delivers on the first load) leaves the access token, the
\* version bytes and both copies of every word, the written list, the batcher
\* and every writes vector as they were.
C38_ReadWritesNothing ==
    [][(\E t \in Threads :
           \/ pc[t] = "live" /\ pc'[t] = "rd2"
           \/ pc[t] = "rd2" /\ pc'[t] = "rd_cp"
           \/ pc[t] = "rd_cp" /\ pc'[t] = "live"
           \/ pc[t] = "live" /\ pc' = pc /\ ops' = ops + 1 /\ wr' = wr)
        => UNCHANGED <<copies, access, ctl, written, remaining, wait, lock_w,
                       tran_counter, writes>>]_vars

\* a read-only transaction holds a value read from a word that a live
\* read-write transaction owns, and that transaction holds a value read from
\* another word
C38_ReadersBesideOwner ==
    \E t \in Threads, u \in Threads, w \in Words, x \in Words :
        /\ t # u /\ w # x
        /\ pc[t] = "live" /\ is_ro[t] /\ rd[t][w] # NoVal
        /\ pc[u] = "live" /\ ~is_ro[u] /\ access[w] = t_id[u] /\ rd[u][x] # NoVal

\* ---- C39
\* C39: allocations are disjoint: the address ranges [base, base + n) that
\* tm_alloc has handed out, to one transaction or to several running at the
\* same time, overlap neither each other nor the initial segment
\* [0, InitSize), and tot_size is the size of the initial segment plus the
\* sizes of all the segments handed out.
C39_AllocationsDisjoint ==
    /\ \A s \in segs : InitSize <= s.base
    /\ \A r \in segs, s \in segs :
          r # s => (r.base + r.n <= s.base \/ s.base + s.n <= r.base)
    /\ tot_size = InitSize + Consumed(segs)

\* one live transaction holds two segments and another live transaction a third
C39_ThreeSegments ==
    \E q \in segs, r \in segs, s \in segs, t \in Threads, u \in Threads :
        /\ q # r /\ t # u
        /\ pc[t] = "live" /\ pc[u] = "live"
        /\ q.by = t_id[t] /\ r.by = t_id[t] /\ s.by = t_id[u]
        /\ q.st = "live" /\ r.st = "live" /\ s.st = "live"

====
